---- MODULE Spec2Model ----
(***************************************************************************)
(* Model of Konfigur2.py: load_config, validate_config,                    *)
(* fetch_package_dependencies, print_direct_dependencies and main.         *)
(*                                                                         *)
(* Strings are sequences of one-character strings, so that split, rstrip,  *)
(* strip and urllib.parse.quote are computed character by character.       *)
(* A JSON value is a record [type, s, n]; a missing key has type "absent". *)
(* An XML document is the sequence of its elements in document order, each *)
(* with its depth (the root has depth 0).                                  *)
(***************************************************************************)
EXTENDS Integers, Sequences, FiniteSets, TLC

VARIABLES pc, file, config, package_name, version, base_url, url, gets,
          xml_data, root, deps_text, dependencies, stdout, stderr, exc,
          exitStatus

vars == <<pc, file, config, package_name, version, base_url, url, gets,
          xml_data, root, deps_text, dependencies, stdout, stderr, exc,
          exitStatus>>

(* ------------------------------ bounds --------------------------------- *)

MaxNameLen == 3

MaxVerLen == 1

MaxBaseLen == 3

MaxTextLen == 5

MaxElems == 2

(* ------------------------------ strings -------------------------------- *)

SeqsUpTo(S, n) == UNION {[1..k -> S] : k \in 0..n}

RECURSIVE Find(_, _, _)
Find(s, c, i) ==
    IF i > Len(s) THEN 0
    ELSE IF s[i] = c THEN i
    ELSE Find(s, c, i + 1)

RECURSIVE SplitN(_, _, _)
SplitN(s, sep, maxsplit) ==
    LET i == Find(s, sep, 1)
    IN  IF maxsplit = 0 \/ i = 0 THEN <<s>>
        ELSE <<SubSeq(s, 1, i - 1)>>
                \o SplitN(SubSeq(s, i + 1, Len(s)), sep, maxsplit - 1)

Split(s, sep) == SplitN(s, sep, Len(s))

RStripOne(s, c) ==
    IF Len(s) > 0 /\ s[Len(s)] = c THEN SubSeq(s, 1, Len(s) - 1) ELSE s

RECURSIVE RStrip(_, _)
RStrip(s, c) ==
    IF Len(s) > 0 /\ s[Len(s)] = c THEN RStrip(SubSeq(s, 1, Len(s) - 1), c)
    ELSE s

Whitespace == {" ", "\t", "\n", "\r"}

IsBlank(s) == \A i \in 1..Len(s) : s[i] \in Whitespace

(* ----------------------- urllib.parse.quote ---------------------------- *)

Unreserved ==
    {"A","B","C","D","E","F","G","H","I","J","K","L","M","N","O","P","Q","R",
     "S","T","U","V","W","X","Y","Z","a","b","c","d","e","f","g","h","i","j",
     "k","l","m","n","o","p","q","r","s","t","u","v","w","x","y","z","0","1",
     "2","3","4","5","6","7","8","9","_",".","-","~"}

PercentCode(c) ==
    CASE c = " "  -> <<"%", "2", "0">>
      [] c = "\"" -> <<"%", "2", "2">>
      [] c = "$"  -> <<"%", "2", "4">>
      [] c = "%"  -> <<"%", "2", "5">>
      [] c = "&"  -> <<"%", "2", "6">>
      [] c = "'"  -> <<"%", "2", "7">>
      [] c = "("  -> <<"%", "2", "8">>
      [] c = ")"  -> <<"%", "2", "9">>
      [] c = "/"  -> <<"%", "2", "F">>
      [] c = ":"  -> <<"%", "3", "A">>
      [] c = "="  -> <<"%", "3", "D">>
      [] c = "?"  -> <<"%", "3", "F">>
      [] c = "|"  -> <<"%", "7", "C">>

QuoteChar(c) == IF c \in Unreserved THEN <<c>> ELSE PercentCode(c)

RECURSIVE Quote(_)
Quote(s) == IF s = <<>> THEN <<>> ELSE QuoteChar(Head(s)) \o Quote(Tail(s))

(* --------------------------- JSON values ------------------------------- *)

Absent == [type |-> "absent", s |-> <<>>, n |-> 0]

NullV == [type |-> "null", s |-> <<>>, n |-> 0]

StrV(x) == [type |-> "str", s |-> x, n |-> 0]

IntV(k) == [type |-> "int", s |-> <<>>, n |-> k]

BoolV(b) == [type |-> "bool", s |-> <<>>, n |-> IF b THEN 1 ELSE 0]

IsInstance(v, expected_type) ==
    IF expected_type = "int" THEN v.type \in {"int", "bool"}
    ELSE v.type = expected_type

Remote == <<"r", "e", "m", "o", "t", "e">>

Local == <<"l", "o", "c", "a", "l">>

EmptyObj ==
    [package_name |-> Absent, repository_url |-> Absent, repo_mode |-> Absent,
     output_file |-> Absent, max_depth |-> Absent, filter_substring |-> Absent,
     package_version |-> Absent]

NoConfig == [kind |-> "none", obj |-> EmptyObj]

StrField == {Absent, StrV(<<"x">>), IntV(1)}

ConfigObjects ==
    [package_name : {Absent, StrV(<<"p">>), IntV(1)},
     repository_url : {Absent, StrV(<<"h", "/">>), NullV},
     repo_mode : {Absent, StrV(Remote), StrV(Local), StrV(<<"x">>), IntV(1)},
     output_file : StrField,
     max_depth : {Absent, IntV(0 - 1), IntV(0), BoolV(TRUE), StrV(<<"0">>)},
     filter_substring : StrField,
     package_version : {Absent, StrV(<<"1">>), IntV(1), NullV}]

Files ==
    {[kind |-> "missing", obj |-> EmptyObj],
     [kind |-> "malformed", obj |-> EmptyObj],
     [kind |-> "array", obj |-> EmptyObj],
     [kind |-> "number", obj |-> EmptyObj]}
    \cup {[kind |-> "object", obj |-> o] : o \in ConfigObjects}

(* --------------------------- exceptions -------------------------------- *)

NoExc == [cls |-> "none", at |-> "none", url |-> <<>>, cause |-> "none"]

Raise(cls, at) == [cls |-> cls, at |-> at, url |-> <<>>, cause |-> "none"]

(* --------------------------- XML documents ----------------------------- *)

DataServices == "http://schemas.microsoft.com/ado/2007/08/dataservices"

TextA == <<"A", ":", "1">>

TextB == <<"B", ":", "2", ":", "n">>

Contents ==
    [ns : {DataServices, ""}, name : {"Dependencies"},
     hasText : {TRUE}, text : {<<" ">>, TextA, TextB}]
    \cup [ns : {DataServices, ""}, name : {"Dependencies"},
          hasText : {FALSE}, text : {<<>>}]

DepthSeqs(n) ==
    {ds \in [1..n -> 0..n] :
        /\ ds[1] = 0
        /\ \A i \in 2..n : ds[i] >= 1 /\ ds[i] <= ds[i - 1] + 1}

Docs ==
    UNION {{[i \in 1..n |-> [depth |-> ds[i], ns |-> c[i].ns,
                             name |-> c[i].name, hasText |-> c[i].hasText,
                             text |-> c[i].text]] :
               ds \in DepthSeqs(n), c \in [1..n -> Contents]} :
           n \in 1..(MaxElems + 1)}

NoData == [kind |-> "none", doc |-> <<>>]

Bodies ==
    {[kind |-> "malformed", doc |-> <<>>],
     [kind |-> "multibyte", doc |-> <<>>]}
    \cup {[kind |-> "xml", doc |-> d] : d \in Docs}

TransportCauses == {"URLError", "HTTPError", "timeout"}

(* ------------------------- validate_config ----------------------------- *)

required_keys ==
    <<[key |-> "package_name", expected_type |-> "str"],
      [key |-> "repository_url", expected_type |-> "str"],
      [key |-> "repo_mode", expected_type |-> "str"],
      [key |-> "output_file", expected_type |-> "str"],
      [key |-> "max_depth", expected_type |-> "int"],
      [key |-> "filter_substring", expected_type |-> "str"]>>

RECURSIVE CheckKeys(_, _)
CheckKeys(obj, i) ==
    IF i > Len(required_keys) THEN "ok"
    ELSE LET key == required_keys[i].key
             expected_type == required_keys[i].expected_type
         IN  IF obj[key].type = "absent" THEN "KeyError"
             ELSE IF ~IsInstance(obj[key], expected_type) THEN "TypeError"
             ELSE CheckKeys(obj, i + 1)

CheckConstraints(obj) ==
    IF obj.max_depth.n < 0 THEN "ValueError"
    ELSE IF obj.repo_mode.s \notin {Remote, Local} THEN "ValueError"
    ELSE "ok"

\* The outcome of validate_config(config): "ok" or the class it raises.  A
\* JSON array without the key fails "key not in config" with KeyError, a JSON
\* number makes the "in" test itself raise TypeError.
validate_config(cfg) ==
    IF cfg.kind = "array" THEN "KeyError"
    ELSE IF cfg.kind = "number" THEN "TypeError"
    ELSE IF CheckKeys(cfg.obj, 1) # "ok" THEN CheckKeys(cfg.obj, 1)
    ELSE CheckConstraints(cfg.obj)

(* --------------------- fetch_package_dependencies ---------------------- *)

IdEq == <<"I", "d", " ", "e", "q", " ", "'">>

AndVersionEq ==
    <<"'", " ", "a", "n", "d", " ", "V", "e", "r", "s", "i", "o", "n", " ",
      "e", "q", " ", "'">>

Apostrophe == <<"'">>

PackagesPath ==
    <<"/", "P", "a", "c", "k", "a", "g", "e", "s", "(", ")", "?", "$", "f",
      "i", "l", "t", "e", "r", "=">>

safe_name_raw(name) == name

safe_name(name) == Quote(name)

safe_version(ver) == Quote(ver)

query(name, ver) ==
    IdEq \o safe_name(name) \o AndVersionEq \o safe_version(ver) \o Apostrophe

encoded_query(name, ver) == Quote(query(name, ver))

StripBaseOnce(base) == RStripOne(base, "/")

StripBase(base) == RStrip(base, "/")

BuildUrl(name, ver, base) ==
    StripBase(base) \o PackagesPath \o encoded_query(name, ver)

IsDependencies(e) == e.ns = DataServices /\ e.name = "Dependencies"

FindAllWithRoot(doc) == SelectSeq(doc, IsDependencies)

\* root.findall('.//d:Dependencies', ns): the descendants of the root, in
\* document order; the root itself is not a candidate.
FindAll(doc) == SelectSeq(Tail(doc), IsDependencies)

MaxSplit == 2

SplitColonUnlimited(dep) == SplitN(dep, ":", Len(dep))

SplitColon(dep) == SplitN(dep, ":", MaxSplit)

TooFewPartsBelowThree(parts) == Len(parts) < 3

TooFewParts(parts) == Len(parts) < 2

DepRecord(parts) ==
    [name |-> parts[1], version |-> parts[2],
     target |-> IF Len(parts) > 2 THEN parts[3] ELSE <<>>]

RECURSIVE DecodeLoop(_, _)
DecodeLoop(segs, acc) ==
    IF segs = <<>> THEN acc
    ELSE LET parts == SplitColon(Head(segs))
         IN  DecodeLoop(Tail(segs),
                        IF TooFewParts(parts) THEN acc
                        ELSE Append(acc, DepRecord(parts)))

DecodeDependencies(text) == DecodeLoop(Split(text, "|"), <<>>)

(* -------------------- print_direct_dependencies ------------------------ *)

RECURSIVE DepLines(_)
DepLines(deps) ==
    IF deps = <<>> THEN <<>>
    ELSE <<[kind |-> "dep", name |-> Head(deps).name,
            version |-> Head(deps).version,
            showTarget |-> Head(deps).target # <<>>,
            target |-> Head(deps).target]>> \o DepLines(Tail(deps))

HeaderLine(k) ==
    [kind |-> k, name |-> <<>>, version |-> <<>>, showTarget |-> FALSE,
     target |-> <<>>]

PrintedLines(deps) ==
    IF deps = <<>> THEN <<HeaderLine("none")>>
    ELSE <<HeaderLine("header")>> \o DepLines(deps)

(* ------------------------------- main ---------------------------------- *)

ConfigErrors == {"FileNotFoundError", "ValueError", "KeyError", "TypeError"}

ExitCode(cls) == IF cls \in ConfigErrors THEN 1 ELSE 2

IsRemoteAlways(cfg) == TRUE

IsRemote(cfg) == cfg.obj.repo_mode.s = Remote

Fail(e) ==
    /\ exc' = e
    /\ pc' = "except"

LoadConfig ==
    /\ pc = "load"
    /\ IF file.kind = "missing"
       THEN /\ Fail(Raise("FileNotFoundError", "load"))
            /\ UNCHANGED config
       ELSE IF file.kind = "malformed"
       THEN /\ Fail(Raise("ValueError", "load"))
            /\ UNCHANGED config
       ELSE /\ config' = file
            /\ pc' = "validate"
            /\ UNCHANGED exc
    /\ UNCHANGED <<file, package_name, version, base_url, url, gets, xml_data,
                   root, deps_text, dependencies, stdout, stderr, exitStatus>>

ValidateConfig ==
    /\ pc = "validate"
    /\ IF validate_config(config) = "ok"
       THEN /\ pc' = "dispatch"
            /\ UNCHANGED exc
       ELSE Fail(Raise(validate_config(config), "validate"))
    /\ UNCHANGED <<file, config, package_name, version, base_url, url, gets,
                   xml_data, root, deps_text, dependencies, stdout, stderr,
                   exitStatus>>

\* main, lines 117-125: the mode test and the evaluation of the arguments of
\* the call; config["package_version"] raises KeyError when the key is absent.
Dispatch ==
    /\ pc = "dispatch"
    /\ IF ~IsRemote(config)
       THEN /\ Fail(Raise("NotImplementedError", "dispatch"))
            /\ UNCHANGED <<package_name, version, base_url>>
       ELSE IF config.obj.package_version.type = "absent"
       THEN /\ Fail(Raise("KeyError", "dispatch"))
            /\ UNCHANGED <<package_name, version, base_url>>
       ELSE /\ package_name' = config.obj.package_name
            /\ version' = config.obj.package_version
            /\ base_url' = config.obj.repository_url
            /\ pc' = "build_url"
            /\ UNCHANGED exc
    /\ UNCHANGED <<file, config, url, gets, xml_data, root, deps_text,
                   dependencies, stdout, stderr, exitStatus>>

\* Lines 51-57; quote() raises TypeError on a value that is not a string.
BuildRequest ==
    /\ pc = "build_url"
    /\ IF package_name.type # "str" \/ version.type # "str"
       THEN /\ Fail(Raise("TypeError", "build_url"))
            /\ UNCHANGED url
       ELSE /\ url' = BuildUrl(package_name.s, version.s, base_url.s)
            /\ pc' = "urlopen"
            /\ UNCHANGED exc
    /\ UNCHANGED <<file, config, package_name, version, base_url, gets,
                   xml_data, root, deps_text, dependencies, stdout, stderr,
                   exitStatus>>

UrlOpenRetry ==
    /\ pc = "urlopen"
    /\ gets' = gets + 1
    /\ \E failed \in BOOLEAN :
          IF failed
          THEN /\ IF gets = 0
                  THEN UNCHANGED <<pc, exc>>
                  ELSE \E cause \in TransportCauses :
                          Fail([cls |-> "RuntimeError", at |-> "urlopen",
                                url |-> url, cause |-> cause])
               /\ UNCHANGED xml_data
          ELSE /\ xml_data' \in Bodies
               /\ pc' = "parse"
               /\ UNCHANGED exc
    /\ UNCHANGED <<file, config, package_name, version, base_url, url, root,
                   deps_text, dependencies, stdout, stderr, exitStatus>>

\* Lines 59-63: the GET; the server and the network choose the outcome.
UrlOpen ==
    /\ pc = "urlopen"
    /\ gets' = gets + 1
    /\ \E failed \in BOOLEAN :
          IF failed
          THEN /\ \E cause \in TransportCauses :
                     Fail([cls |-> "RuntimeError", at |-> "urlopen",
                           url |-> url, cause |-> cause])
               /\ UNCHANGED xml_data
          ELSE /\ xml_data' \in Bodies
               /\ pc' = "parse"
               /\ UNCHANGED exc
    /\ UNCHANGED <<file, config, package_name, version, base_url, url, root,
                   deps_text, dependencies, stdout, stderr, exitStatus>>

\* Lines 65-68: ET.ParseError is turned into RuntimeError; the ValueError that
\* expat raises for a document declaring a multi-byte encoding is not caught.
ParseXml ==
    /\ pc = "parse"
    /\ IF xml_data.kind = "malformed"
       THEN /\ Fail(Raise("RuntimeError", "parse"))
            /\ UNCHANGED root
       ELSE IF xml_data.kind = "multibyte"
       THEN /\ Fail(Raise("ValueError", "parse"))
            /\ UNCHANGED root
       ELSE /\ root' = xml_data.doc
            /\ pc' = "find"
            /\ UNCHANGED exc
    /\ UNCHANGED <<file, config, package_name, version, base_url, url, gets,
                   xml_data, deps_text, dependencies, stdout, stderr,
                   exitStatus>>

\* Lines 71-79.
FindDependencies ==
    /\ pc = "find"
    /\ LET dependencies_entries == FindAll(root)
       IN  IF dependencies_entries = <<>>
           THEN /\ dependencies' = <<>>
                /\ pc' = "print"
                /\ UNCHANGED deps_text
           ELSE IF \/ ~dependencies_entries[1].hasText
                   \/ dependencies_entries[1].text = <<>>
                   \/ IsBlank(dependencies_entries[1].text)
           THEN /\ dependencies' = <<>>
                /\ pc' = "print"
                /\ UNCHANGED deps_text
           ELSE /\ deps_text' = dependencies_entries[1].text
                /\ pc' = "decode"
                /\ UNCHANGED dependencies
    /\ UNCHANGED <<file, config, package_name, version, base_url, url, gets,
                   xml_data, root, stdout, stderr, exc, exitStatus>>

\* Lines 82-96.
Decode ==
    /\ pc = "decode"
    /\ dependencies' = DecodeDependencies(deps_text)
    /\ pc' = "print"
    /\ UNCHANGED <<file, config, package_name, version, base_url, url, gets,
                   xml_data, root, deps_text, stdout, stderr, exc, exitStatus>>

\* Line 123, then main returns and the process ends with status 0.
PrintDependencies ==
    /\ pc = "print"
    /\ stdout' = PrintedLines(dependencies)
    /\ pc' = "exited"
    /\ exitStatus' = 0
    /\ UNCHANGED <<file, config, package_name, version, base_url, url, gets,
                   xml_data, root, deps_text, dependencies, stderr, exc>>

\* Lines 128-133.
HandleException ==
    /\ pc = "except"
    /\ stderr' = IF exc.cls \in ConfigErrors THEN "config" ELSE "unexpected"
    /\ exitStatus' = ExitCode(exc.cls)
    /\ pc' = "exited"
    /\ UNCHANGED <<file, config, package_name, version, base_url, url, gets,
                   xml_data, root, deps_text, dependencies, stdout, exc>>

(* --------------------------- specifications ---------------------------- *)

NotRunning == 0 - 1

Init ==
    /\ pc = "load"
    /\ file \in Files
    /\ config = NoConfig
    /\ package_name = Absent
    /\ version = Absent
    /\ base_url = Absent
    /\ url = <<>>
    /\ gets = 0
    /\ xml_data = NoData
    /\ root = <<>>
    /\ deps_text = <<>>
    /\ dependencies = <<>>
    /\ stdout = <<>>
    /\ stderr = ""
    /\ exc = NoExc
    /\ exitStatus = NotRunning

Next ==
    \/ LoadConfig
    \/ ValidateConfig
    \/ Dispatch
    \/ BuildRequest
    \/ UrlOpen
    \/ ParseXml
    \/ FindDependencies
    \/ Decode
    \/ PrintDependencies
    \/ HandleException

Spec == Init /\ [][Next]_vars

\* A validated remote-mode configuration for the given strings.
RemoteConfig(name, ver, base) ==
    [kind |-> "object",
     obj |-> [package_name |-> StrV(name), repository_url |-> StrV(base),
              repo_mode |-> StrV(Remote), output_file |-> StrV(<<"x">>),
              max_depth |-> IntV(0), filter_substring |-> StrV(<<"x">>),
              package_version |-> StrV(ver)]]

QueryAlphabet == {" ", "'", "&", "/", "%", "2"}

BaseAlphabet == {"h", "/"}

QueryInputs ==
    {<<n, v, <<"h", "/">>>> :
        n \in SeqsUpTo(QueryAlphabet, MaxNameLen),
        v \in SeqsUpTo(QueryAlphabet, MaxVerLen)}
    \cup {<<<<"p">>, <<"1">>, b>> : b \in SeqsUpTo(BaseAlphabet, MaxBaseLen)}

\* The states in which fetch_package_dependencies is entered.
InitQuery ==
    /\ pc = "build_url"
    /\ \E q \in QueryInputs :
          /\ config = RemoteConfig(q[1], q[2], q[3])
          /\ package_name = StrV(q[1])
          /\ version = StrV(q[2])
          /\ base_url = StrV(q[3])
    /\ file = config
    /\ url = <<>>
    /\ gets = 0
    /\ xml_data = NoData
    /\ root = <<>>
    /\ deps_text = <<>>
    /\ dependencies = <<>>
    /\ stdout = <<>>
    /\ stderr = ""
    /\ exc = NoExc
    /\ exitStatus = NotRunning

NextQuery == BuildRequest

SpecQuery == InitQuery /\ [][NextQuery]_vars

TextAlphabet == {"A", ":", "|", " "}

Example1 == <<"A", ":", "1", "|", "B", ":", "2", ":", "n", "|", "C">>

Example2 == <<"X", ":", "1", ":", "n", ":", "e">>

DepsTexts ==
    {t \in SeqsUpTo(TextAlphabet, MaxTextLen) \cup {Example1, Example2} :
        t # <<>> /\ ~IsBlank(t)}

DocWithText(t) ==
    <<[depth |-> 0, ns |-> "", name |-> "feed", hasText |-> FALSE,
       text |-> <<>>],
      [depth |-> 1, ns |-> DataServices, name |-> "Dependencies",
       hasText |-> TRUE, text |-> t]>>

\* The states in which the decoding loop of line 82 is entered.
InitDecode ==
    /\ pc = "decode"
    /\ deps_text \in DepsTexts
    /\ config = RemoteConfig(<<"p">>, <<"1">>, <<"h", "/">>)
    /\ file = config
    /\ package_name = StrV(<<"p">>)
    /\ version = StrV(<<"1">>)
    /\ base_url = StrV(<<"h", "/">>)
    /\ url = BuildUrl(<<"p">>, <<"1">>, <<"h", "/">>)
    /\ gets = 1
    /\ root = DocWithText(deps_text)
    /\ xml_data = [kind |-> "xml", doc |-> root]
    /\ dependencies = <<>>
    /\ stdout = <<>>
    /\ stderr = ""
    /\ exc = NoExc
    /\ exitStatus = NotRunning

NextDecode == Decode

SpecDecode == InitDecode /\ [][NextDecode]_vars

(* ------------------------------ claims --------------------------------- *)

Min(S) == CHOOSE x \in S : \A y \in S : x <= y

Max(S) == CHOOSE x \in S : \A y \in S : x >= y

Positions(s, c) == {i \in 1..Len(s) : s[i] = c}

\* The k-th '|'-separated segment of t, by the positions of the bars.
NumSegments(t) == Cardinality(Positions(t, "|")) + 1

BarBefore(t, k) ==
    IF k = 1 THEN 0
    ELSE CHOOSE i \in Positions(t, "|") :
            Cardinality({j \in Positions(t, "|") : j <= i}) = k - 1

BarAfter(t, k) ==
    IF k = NumSegments(t) THEN Len(t) + 1
    ELSE CHOOSE i \in Positions(t, "|") :
            Cardinality({j \in Positions(t, "|") : j <= i}) = k

SegmentAt(t, k) == SubSeq(t, BarBefore(t, k) + 1, BarAfter(t, k) - 1)

KeptSegments(t) ==
    {k \in 1..NumSegments(t) : Positions(SegmentAt(t, k), ":") # {}}

RecordOf(t, k) ==
    dependencies[Cardinality({j \in KeptSegments(t) : j <= k})]

FirstColon(seg) == Min(Positions(seg, ":"))

\* C1: after the decoding loop, the list holds exactly one record per
\* '|'-separated segment that contains a colon, in segment order; a segment
\* without a colon gives no record and no error, and a segment with exactly
\* one colon gives name, version and an empty target.
C1_OneRecordPerSegment ==
    pc = "print" =>
        /\ exc = NoExc
        /\ Len(dependencies) = Cardinality(KeptSegments(deps_text))
        /\ \A k \in KeptSegments(deps_text) :
              LET seg == SegmentAt(deps_text, k)
                  r == RecordOf(deps_text, k)
              IN  /\ r.name = SubSeq(seg, 1, FirstColon(seg) - 1)
                  /\ Cardinality(Positions(seg, ":")) = 1 =>
                        /\ r.version = SubSeq(seg, FirstColon(seg) + 1, Len(seg))
                        /\ r.target = <<>>

C1_Witness ==
    /\ pc = "print"
    /\ deps_text = Example1
    /\ Len(dependencies) = 2
    /\ dependencies[1] = [name |-> <<"A">>, version |-> <<"1">>,
                          target |-> <<>>]
    /\ dependencies[2].name = <<"B">>

\* C2: a segment with two or more colons is split at its first two colons
\* only: name and version hold no colon and name:version:target is the
\* segment again, so the target keeps every further colon.
C2_SplitAtMostThree ==
    pc = "print" =>
        \A k \in KeptSegments(deps_text) :
            LET seg == SegmentAt(deps_text, k)
                r == RecordOf(deps_text, k)
            IN  Cardinality(Positions(seg, ":")) >= 2 =>
                    /\ Positions(r.name, ":") = {}
                    /\ Positions(r.version, ":") = {}
                    /\ r.name \o <<":">> \o r.version \o <<":">> \o r.target
                          = seg

C2_Witness ==
    /\ pc = "print"
    /\ deps_text = Example2
    /\ dependencies = <<[name |-> <<"X">>, version |-> <<"1">>,
                         target |-> <<"n", ":", "e">>]>>

\* The place of '/Packages()?$filter=' in the URL: the encoded query holds
\* none of its reserved characters, so its last occurrence is the appended one.
PathStart(u) ==
    Max({i \in 1..(Len(u) - Len(PackagesPath) + 1) :
            SubSeq(u, i, i + Len(PackagesPath) - 1) = PackagesPath})

UrlPrefix(u) == SubSeq(u, 1, PathStart(u) - 1)

FilterValue(u) == SubSeq(u, PathStart(u) + Len(PackagesPath), Len(u))

\* C3 as stated: the URL prefix is the base URL with a single trailing '/'
\* removed if present.
C3_SingleSlashStripped ==
    pc = "urlopen" => UrlPrefix(url) = RStripOne(base_url.s, "/")

\* C3 as amended: the URL prefix is the base URL with every trailing '/'
\* removed: it is a prefix of the base URL, only slashes follow it there, and
\* it does not end in '/'.
C3_AllSlashesStripped ==
    pc = "urlopen" =>
        LET p == UrlPrefix(url)
            b == base_url.s
        IN  /\ Len(p) <= Len(b)
            /\ SubSeq(b, 1, Len(p)) = p
            /\ \A i \in (Len(p) + 1)..Len(b) : b[i] = "/"
            /\ p = <<>> \/ p[Len(p)] # "/"

C3_Witness ==
    /\ pc = "urlopen"
    /\ base_url.s = <<"h", "/", "/">>
    /\ UrlPrefix(url) = <<"h">>

HexDigits ==
    {"0","1","2","3","4","5","6","7","8","9","A","B","C","D","E","F",
     "a","b","c","d","e","f"}

CharOfCode(a, b) ==
    CASE <<a, b>> = <<"2", "0">> -> " "
      [] <<a, b>> = <<"2", "2">> -> "\""
      [] <<a, b>> = <<"2", "4">> -> "$"
      [] <<a, b>> = <<"2", "5">> -> "%"
      [] <<a, b>> = <<"2", "6">> -> "&"
      [] <<a, b>> = <<"2", "7">> -> "'"
      [] <<a, b>> = <<"2", "8">> -> "("
      [] <<a, b>> = <<"2", "9">> -> ")"
      [] <<a, b>> \in {<<"2", "F">>, <<"2", "f">>} -> "/"
      [] <<a, b>> \in {<<"3", "A">>, <<"3", "a">>} -> ":"
      [] <<a, b>> \in {<<"3", "D">>, <<"3", "d">>} -> "="
      [] <<a, b>> \in {<<"3", "F">>, <<"3", "f">>} -> "?"
      [] <<a, b>> \in {<<"7", "C">>, <<"7", "c">>} -> "|"
      [] OTHER -> "#"

\* Percent-decoding, as urllib.parse.unquote does it: '%' followed by two hex
\* digits is one character, any other '%' stands for itself.
RECURSIVE Unquote(_)
Unquote(s) ==
    IF s = <<>> THEN <<>>
    ELSE IF Head(s) = "%" /\ Len(s) >= 3 /\ s[2] \in HexDigits
                          /\ s[3] \in HexDigits
    THEN <<CharOfCode(s[2], s[3])>> \o Unquote(SubSeq(s, 4, Len(s)))
    ELSE <<Head(s)>> \o Unquote(Tail(s))

\* C8: percent-decoding the $filter value once gives
\* Id eq '<n>' and Version eq '<v>' with no apostrophe inside <n> and <v>
\* (exactly four apostrophes delimit them), and decoding <n> and <v> gives
\* back package_name and version; the URL therefore determines the pair, so
\* distinct pairs have distinct URLs.
C8_QueryRoundTrip ==
    pc = "urlopen" =>
        LET pieces == Split(Unquote(FilterValue(url)), "'")
        IN  /\ Len(pieces) = 5
            /\ pieces[1] = <<"I", "d", " ", "e", "q", " ">>
            /\ pieces[3] = <<" ", "a", "n", "d", " ", "V", "e", "r", "s", "i",
                             "o", "n", " ", "e", "q", " ">>
            /\ pieces[5] = <<>>
            /\ Unquote(pieces[2]) = package_name.s
            /\ Unquote(pieces[4]) = version.s

C8_Witness ==
    /\ pc = "urlopen"
    /\ package_name.s = <<"%", "2", "2">>
    /\ version.s = <<"'">>
    /\ gets = 0

StringKeys ==
    {"package_name", "repository_url", "repo_mode", "output_file",
     "filter_substring"}

\* The six required keys present, the five string keys strings and max_depth
\* an integer (a JSON boolean is not one).
CorrectlyTyped(o) ==
    /\ \A k \in StringKeys : o[k].type = "str"
    /\ o.max_depth.type = "int"

ConstraintsHold(o) ==
    /\ o.max_depth.n >= 0
    /\ o.repo_mode.s \in {Remote, Local}

ValidationDone ==
    /\ config.kind = "object"
    /\ pc = "dispatch" \/ exc.at = "validate"

\* C4: validate_config accepts an object exactly when the six keys are present
\* and correctly typed, max_depth >= 0 and repo_mode is remote or local; it
\* raises KeyError or TypeError for a missing or wrongly typed key and
\* ValueError for a broken constraint.
C4_ValidateAcceptsIffValid ==
    ValidationDone =>
        /\ pc = "dispatch" <=>
              (CorrectlyTyped(config.obj) /\ ConstraintsHold(config.obj))
        /\ ~CorrectlyTyped(config.obj) => exc.cls \in {"KeyError", "TypeError"}
        /\ (CorrectlyTyped(config.obj) /\ ~ConstraintsHold(config.obj)) =>
              exc.cls = "ValueError"

ConfigLayerError ==
    \/ exc.at \in {"load", "validate", "build_url"}
    \/ exc.at = "dispatch" /\ exc.cls = "KeyError"

FetchLayerError ==
    \/ exc.at \in {"urlopen", "parse"}
    \/ exc.cls = "NotImplementedError"

\* C5: a finished run has status 0 exactly when everything succeeded and the
\* list was printed, status 1 exactly when the failure is a configuration
\* error, and status 2 for every fetch, XML parse or unsupported-mode error.
C5_ExitStatus ==
    pc = "exited" =>
        /\ exitStatus \in {0, 1, 2}
        /\ exitStatus = 0 <=> (exc = NoExc /\ stdout # <<>>)
        /\ exitStatus = 1 <=> ConfigLayerError
        /\ FetchLayerError => exitStatus = 2

PassedValidation ==
    /\ config.kind = "object"
    /\ pc \notin {"load", "validate"}
    /\ exc.at \notin {"load", "validate"}

\* C6: once a configuration with repo_mode local has passed validation, no
\* URL is built, no GET is issued and nothing is printed, the only exception
\* is NotImplementedError and the run ends with status 2, whatever the other
\* fields hold.
C6_LocalUnsupported ==
    (PassedValidation /\ config.obj.repo_mode = StrV(Local)) =>
        /\ gets = 0
        /\ url = <<>>
        /\ stdout = <<>>
        /\ pc \in {"dispatch", "except", "exited"}
        /\ pc # "dispatch" => exc.cls = "NotImplementedError"
        /\ pc = "exited" => exitStatus = 2

C6_Witness ==
    /\ pc = "exited"
    /\ config.obj.repo_mode = StrV(Local)
    /\ config.obj.package_version = Absent
    /\ exc.cls = "NotImplementedError"
    /\ exitStatus = 2
    /\ gets = 0

Matches ==
    {i \in 2..Len(root) :
        root[i].ns = DataServices /\ root[i].name = "Dependencies"}

RecordsOfText(t) ==
    CASE t = TextA -> <<[name |-> <<"A">>, version |-> <<"1">>,
                         target |-> <<>>]>>
      [] t = TextB -> <<[name |-> <<"B">>, version |-> <<"2">>,
                         target |-> <<"n">>]>>
      [] OTHER -> <<>>

\* C7: when the extraction has returned, no error was raised and the list is
\* empty if no element below the root is a data-services Dependencies element
\* or the first such element has no text or only whitespace (whatever later
\* elements carry); otherwise it holds the records of that first element only.
C7_FirstElementOnly ==
    (pc = "print" /\ root # <<>>) =>
        /\ exc = NoExc
        /\ IF Matches = {} THEN dependencies = <<>>
           ELSE IF ~root[Min(Matches)].hasText
                   \/ IsBlank(root[Min(Matches)].text)
           THEN dependencies = <<>>
           ELSE dependencies = RecordsOfText(root[Min(Matches)].text)

C7_Witness ==
    /\ pc = "print"
    /\ Cardinality(Matches) >= 2
    /\ IsBlank(root[Min(Matches)].text)
    /\ \E j \in Matches : root[j].text = TextB
    /\ dependencies = <<>>

\* C9: a GET has been issued only if the file held an object that was loaded,
\* has all six keys present and correctly typed, max_depth >= 0, repo_mode
\* remote, and package_version present and a string.
C9_FetchOnlyValidated ==
    gets > 0 =>
        /\ file.kind = "object"
        /\ config = file
        /\ CorrectlyTyped(config.obj)
        /\ ConstraintsHold(config.obj)
        /\ config.obj.repo_mode.s = Remote
        /\ config.obj.package_version.type = "str"

\* C10: at most one GET is issued in a run; after a transport failure the
\* exception is a RuntimeError carrying the URL and the cause, no response is
\* parsed, nothing is printed, no further GET follows and the run ends with
\* status 2.
C10_SingleGetNoRetry ==
    /\ gets <= 1
    /\ exc.at = "urlopen" =>
          /\ gets = 1
          /\ exc.cls = "RuntimeError"
          /\ exc.url = url
          /\ exc.cause \in TransportCauses
          /\ xml_data = NoData
          /\ root = <<>>
          /\ dependencies = <<>>
          /\ stdout = <<>>
          /\ pc \in {"except", "exited"}
          /\ pc = "exited" => exitStatus = 2

C10_Witness ==
    /\ pc = "exited"
    /\ exc.at = "urlopen"
    /\ exc.cause = "timeout"
    /\ gets = 1
    /\ exitStatus = 2

====
